---- MODULE Spec2Model ----
(***************************************************************************)
(* Transaction-sending subsystem of the DARI wallet backend:               *)
(*   - the transaction ledger        (app/crud/transaction.py)             *)
(*   - the send_transaction handler  (app/api/v1/transactions.py)          *)
(*   - the gas-sponsorship relay     (app/services/blockchain_service.py)  *)
(*   - the chain synchroniser        (app/services/transaction_sync_...)   *)
(* Every request is a process whose steps are the segments of the handler  *)
(* between two awaited calls (database or chain RPC).                      *)
(***************************************************************************)
EXTENDS Integers, Sequences, FiniteSets, TLC

(* ---------------------------------------------------------------- bounds *)
MaxSends == 2
MaxFaults == 1
MaxFinalize == 1
\* the gas price sample w3.eth.gas_price returns, in wei
GasPriceWei == 1
\* amount_wei of a native send
MaticAmountWei == 1

(* ------------------------------------------------------ program constants *)
GasForTokenTransfer == 100000
GasForMaticTransfer == 21000

\* the request tasks that can be in flight at the same time
Procs == {1, 2}
Users == {"u1", "u2"}
Relayer == "relayer"
Accounts == Users \cup {Relayer}
Tokens == {"USDC", "MATIC"}

PENDING == "pending"
CONFIRMED == "confirmed"
FAILED == "failed"
Terminal == {CONFIRMED, FAILED}

NoHash == 0
NoRow == 0
NoNonce == -1

VARIABLES
    rows,          \* the transactions table: rows[id] is the row with primary key id
    send,          \* send[p]: position and locals of request p of send_transaction
    txs,           \* the chain: txs[h] is the accepted raw transaction with hash h
    balance,       \* native balance of every account in the latest block
    nonce,         \* transaction count of every account in the latest block
    notifs,        \* notifs[p]: the notify_* calls request p has issued, in order,
                   \* and the errors of the collaborators behind them
    started,       \* requests of send_transaction received so far
    faults,        \* environment faults injected so far (database, RPC or
                   \* notification collaborator errors)
    finalizes,     \* finalize calls made by the confirmation source so far
    lastFinalize,  \* the last finalize call of the confirmation source and its outcome
    lastSync,      \* the result of the last sync_user_transactions call
    resolvers,     \* the address_resolvers table, one row per alias
    lookups,       \* lookups[a]: the wallet addresses the resolve endpoint has
                   \* returned for the alias a so far
    lastLookup,    \* the last call of get_transaction_by_hash and its outcome
    aliasReq,      \* aliasReq[p]: position and locals of request p of the alias
                   \* endpoints (POST /create, PUT /update)
    fee            \* the arguments of calculate_total_fee other than the amount,
                   \* and the last two breakdowns it returned for them

vars == <<rows, send, txs, balance, nonce, notifs, started, faults, finalizes,
          lastFinalize, lastSync, resolvers, lookups, fee, lastLookup,
          aliasReq>>

(* ------------------------------------------------------------ the ledger *)

\* app/core/config.py: ENABLE_GASLESS defaults to true; the relayer key is configured
GaslessEnabled == TRUE

Unset == -1

\* confirmed_at of a row: NULL, or the time of the last write to the column.
\* Every call of datetime.utcnow() returns a later time than the calls before
\* it, so the times written to one row are numbered in the order of the writes
NoTime == 0

\* datetime.utcnow() at a write to a row whose confirmed_at is t
UtcNow(t) == t + 1

\* Transaction(...) as built by create_transaction: the chain identifier goes to
\* the unique column tx_hash, the status defaults to PENDING and confirmed_at
\* is NULL (of the columns only the identifier, the type, the status and
\* confirmed_at are kept)
NewRow(data) ==
    [ tx_hash          |-> data.transaction_hash,
      transaction_type |-> data.transaction_type,
      status           |-> IF data.status = "none" THEN PENDING ELSE data.status,
      confirmed_at     |-> NoTime ]

\* the unique index on transactions.tx_hash (NULLs never conflict)
TxHashConflict(rs, h) ==
    h # NoHash /\ \E i \in 1..Len(rs) : rs[i].tx_hash = h

\* TransactionCreate validation: from_address, to_address, amount, token and
\* transaction_type are required fields, the others are optional
RequiredFields == {"from_address", "to_address", "amount", "token", "transaction_type"}

\* variant: token is an optional field like the others
TransactionCreateValid_TokenOptional(fields) ==
    (RequiredFields \ {"token"}) \subseteq fields

TransactionCreateValid(fields) == RequiredFields \subseteq fields

\* variant: the row is added to the session and gets its key, but the
\* transaction is not committed
CreateTransaction_NoCommit(rs, data) ==
    [raised |-> FALSE, rows |-> rs, id |-> Len(rs) + 1]

\* create_transaction: add, commit; the commit fails on a duplicate tx_hash
CreateTransaction(rs, data) ==
    IF TxHashConflict(rs, data.transaction_hash)
    THEN [raised |-> TRUE, rows |-> rs, id |-> NoRow]
    ELSE [raised |-> FALSE, rows |-> Append(rs, NewRow(data)), id |-> Len(rs) + 1]

\* variant: the status is assigned but the transaction is not committed
UpdateTransactionStatus_NotCommitted(rs, id, status, hash) ==
    [found |-> id \in 1..Len(rs), raised |-> FALSE, rows |-> rs, attr |-> hash]

\* update_transaction_status: the row, when found, gets the status
\* unconditionally; the hash is assigned to the attribute transaction_hash of
\* the loaded object, which is not a mapped column (the column is tx_hash), so
\* the commit writes the status only.  attr is that attribute of the object
\* the call returns.
UpdateTransactionStatus(rs, id, status, hash) ==
    IF id \notin 1..Len(rs)
    THEN [found |-> FALSE, raised |-> FALSE, rows |-> rs, attr |-> NoHash]
    ELSE [found |-> TRUE, raised |-> FALSE,
          rows |-> [rs EXCEPT ![id].status = status,
                              ![id].confirmed_at =
                                  IF status = CONFIRMED THEN UtcNow(@) ELSE @],
          attr |-> hash]

(* ------------------------------------------------------------- the chain *)

\* total_gas_cost = gas_price * (21000 + 100000); gas_to_send = int(total * 1.3):
\* the float product, truncated, which for the gas prices of the model is the
\* integer part of 13 * total / 10
GasToSend(gp) == (gp * (GasForMaticTransfer + GasForTokenTransfer) * 13) \div 10

\* estimated_gas_cost = gas_price * 100000
EstimatedGasCost(gp) == gp * GasForTokenTransfer

\* variant: strict comparison
UserHasGas_Strict(user_balance, estimated_gas_cost) == user_balance > estimated_gas_cost

\* if user_balance >= estimated_gas_cost: the user pays the gas
UserHasGas(user_balance, estimated_gas_cost) == user_balance >= estimated_gas_cost

\* variant: the balance of the relayer is not compared with the advance
RelayerUnderfunded_Unchecked(relayer_balance, gas_to_send) == FALSE

\* if relayer_balance < gas_to_send: raise "Relayer has insufficient gas"
RelayerUnderfunded(relayer_balance, gas_to_send) == relayer_balance < gas_to_send

\* w3.eth.get_transaction_count(a): transactions of a in the latest block
LatestNonce(a) == nonce[a]

\* w3.eth.get_transaction_count(a, 'pending'): latest plus the queued ones
PendingNonce(a) ==
    nonce[a] + Cardinality({h \in 1..Len(txs) : txs[h].from = a /\ ~txs[h].mined})

\* the node refuses a raw transaction whose nonce is used up or already queued
NodeAccepts(from, n) ==
    /\ n >= nonce[from]
    /\ ~\E h \in 1..Len(txs) : txs[h].from = from /\ txs[h].nonce = n /\ ~txs[h].mined

RawTx(from, to, n, kind, value, gas) ==
    [from |-> from, to |-> to, nonce |-> n, kind |-> kind, value |-> value,
     gas |-> gas, mined |-> FALSE]

(* ------------------------------------------------------------ the requests *)

(* --------------------------------------------------- the alias directory *)

\* the registered accounts: the users who send, and one account that only
\* receives
Registered == Users \cup {"u3"}

\* wallets.address of every account, spelled as create_wallet stored it
\* (checksum case); the column is unique
WalletAddress ==
    [u \in Registered |->
        CASE u = "u1" -> "0xAa" [] u = "u2" -> "0xBb" [] OTHER -> "0xCc"]

\* users.phone of every account
Phone ==
    [u \in Registered |->
        CASE u = "u1" -> "+1" [] u = "u2" -> "+2" [] OTHER -> "+3"]

NoAddress == "none"

\* str.lower() on the strings of the model
Lower(s) ==
    CASE s = "0xAa" -> "0xaa"
      [] s = "0xBb" -> "0xbb"
      [] s = "0xCc" -> "0xcc"
      [] s = "Abc" -> "abc"
      [] s = "Abc@dari" -> "abc@dari"
      [] OTHER -> s

\* the recipient identifiers a request may carry: aliases, phone numbers and
\* raw addresses, in several spellings
DariIdents == {"abc@dari", "Abc@dari", "old@dari", "xyz@dari", "pay@dari"}
PhoneIdents == {"+1", "+2", "+9"}
RawIdents == {"0xAa", "0xaa", "0xBb", "0xbb"}
Identifiers == DariIdents \cup PhoneIdents \cup RawIdents

\* '@dari' in address.lower()
IsDariAddress(address) == Lower(address) \in {Lower(a) : a \in DariIdents}

\* address.startswith('+')
IsPhone(address) == address \in PhoneIdents

\* address.startswith('0x') and len(address) == 42
IsWalletAddress(address) == address \in RawIdents

\* create_address_resolver: the row of a new alias
NewResolver(user_id, wallet_address, username) ==
    [ user_id |-> user_id, username |-> username,
      full_address |-> username \o "@dari",
      wallet_address |-> wallet_address, is_active |-> TRUE ]

\* get_address_resolver_by_full_address: the stored column is compared with
\* the lowercased argument
GetAddressResolverByFullAddress(rs, full_address) ==
    {r \in rs : r.full_address = Lower(full_address)}

\* get_address_resolver_by_wallet_address: exact match on the stored spelling
GetAddressResolverByWalletAddress(rs, wallet_address) ==
    {r \in rs : r.wallet_address = wallet_address}

\* resolve_address with the activity flag of the row ignored
ResolverUsable_Inactive(resolver) == TRUE

\* resolve_address: `if resolver and resolver.is_active`
ResolverUsable(resolver) == resolver.is_active

\* resolve_address: the wallet address an identifier resolves to, NoAddress
\* for the None it returns
ResolveAddress(rs, address) ==
    IF IsDariAddress(address)
    THEN LET found == {r \in GetAddressResolverByFullAddress(rs, address) :
                          ResolverUsable(r)}
         IN  IF found = {} THEN NoAddress
             ELSE (CHOOSE r \in found : TRUE).wallet_address
    ELSE IF IsWalletAddress(address) THEN address
    ELSE NoAddress

\* send_transaction with the two addresses compared as they are spelled
SameAddress_AsSpelled(a, b) == a = b

\* send_transaction: destination_wallet_address.lower() == wallet.address.lower()
SameAddress(a, b) == Lower(a) = Lower(b)

\* get_user_by_phone
UserByPhone(phone) == {u \in Registered : Phone[u] = phone}

\* send_transaction, the resolution of the recipient of a request of user u:
\* the destination address, or the error that leaves the handler
ResolveRecipient(rs, u, to_address) ==
    IF IsDariAddress(to_address)
    THEN LET resolved == ResolveAddress(rs, to_address)
         IN  IF resolved = NoAddress
             THEN [error |-> "unknown_alias", response |-> "404",
                   destination |-> NoAddress]
             ELSE IF SameAddress(resolved, WalletAddress[u])
             THEN [error |-> "self_transfer", response |-> "400",
                   destination |-> NoAddress]
             ELSE [error |-> "none", response |-> "none", destination |-> resolved]
    ELSE IF IsPhone(to_address)
    THEN LET recipient_user == UserByPhone(to_address)
         IN  IF recipient_user = {}
             THEN [error |-> "unknown_phone", response |-> "404",
                   destination |-> NoAddress]
             ELSE IF (CHOOSE r \in recipient_user : TRUE) = u
             THEN [error |-> "self_transfer", response |-> "400",
                   destination |-> NoAddress]
             ELSE [error |-> "none", response |-> "none",
                   destination |-> WalletAddress[CHOOSE r \in recipient_user : TRUE]]
    ELSE IF SameAddress(to_address, WalletAddress[u])
    THEN [error |-> "self_transfer", response |-> "400", destination |-> NoAddress]
    ELSE [error |-> "none", response |-> "none", destination |-> to_address]

\* the account whose key controls an address: on the chain an address is the
\* same in every letter case
AccountOf(address) ==
    CHOOSE a \in Registered : Lower(WalletAddress[a]) = Lower(address)

(* ------------------------------------------------------------ a request *)

\* the locals of one send_transaction request before it starts
IdleSend ==
    [ pc |-> "idle", user |-> "none", to_address |-> "none", to |-> "none",
      to_user_id |-> "none", token |-> "none",
      sender_country |-> "none", recipient_country |-> "none",
      is_international |-> FALSE,
      row |-> NoRow, user_balance |-> Unset, gas_price |-> Unset,
      path |-> "none", relayer_balance |-> Unset, relayer_nonce |-> NoNonce,
      advance |-> NoHash, transfer |-> NoHash,
      result |-> "none", error |-> "none", response |-> "none" ]

\* the request has ended with the given response: its frame is gone, what is
\* kept of it is what left the handler (the row it opened, the result of the
\* chain call, the response)
Finished(s, response) ==
    [IdleSend EXCEPT !.pc = "done", !.row = s.row, !.path = s.path,
                     !.advance = s.advance, !.transfer = s.transfer,
                     !.result = s.result, !.error = s.error, !.response = response]

\* positions inside the chain call of a request (worker thread of asyncio.to_thread)
ChainPcs ==
    {"m_submit", "check", "d_submit", "r_check", "r_nonce", "r_submit", "s_submit"}

\* a request has ended: it returned a response or an exception left the handler
Ended(p) == send[p].pc = "done"

\* the native funds the wallets start with: either the relayer wallet is
\* empty and the first user holds exactly the estimated gas cost of a token
\* transfer, or the relayer holds three advances and the first user nothing;
\* the second user holds nothing
Funding ==
    { [relayer |-> 0, u1 |-> EstimatedGasCost(GasPriceWei)],
      [relayer |-> 3 * GasToSend(GasPriceWei), u1 |-> 0] }

\* the alias table at the start: the second user holds the alias abc, the
\* third account an alias that was deactivated, the first user none
InitialResolvers ==
    { NewResolver("u2", WalletAddress["u2"], "abc"),
      [NewResolver("u3", WalletAddress["u3"], "old") EXCEPT !.is_active = FALSE] }

\* the aliases of the model, in the spelling the table stores
Aliases == {Lower(a) : a \in DariIdents}

\* the locals of one alias request before it starts
IdleAlias ==
    [ pc |-> "idle", op |-> "none", user |-> "none", username |-> "none",
      current |-> "none", response |-> "none" ]

\* the state when the service starts, for a set of fundings of the wallets
InitOf(fundings) ==
    /\ rows = << >>
    /\ send = [p \in Procs |-> IdleSend]
    /\ txs = << >>
    /\ \E f \in fundings :
          balance = [a \in Accounts |->
                       IF a = Relayer THEN f.relayer
                       ELSE IF a = "u1" THEN f.u1 ELSE 0]
    /\ nonce = [a \in Accounts |-> 0]
    /\ started = 0
    /\ notifs = [p \in Procs |-> << >>]
    /\ faults = 0
    /\ finalizes = 0
    /\ lastFinalize = [row |-> NoRow, status |-> "none", hash |-> NoHash,
                       found |-> FALSE, raised |-> FALSE]
    /\ lastSync = [success |-> FALSE, synced_count |-> 0, skipped_count |-> 0]
    /\ resolvers = InitialResolvers
    /\ lookups = [a \in Aliases |-> {}]
    /\ lastLookup = [hash |-> NoHash, raised |-> FALSE, row |-> NoRow]
    /\ aliasReq = [p \in Procs |-> IdleAlias]

InitState == InitOf(Funding)

\* fundings under which the relayer is short: it holds exactly one advance,
\* or one unit less than two advances; the users hold nothing
TightFunding ==
    { [relayer |-> GasToSend(GasPriceWei), u1 |-> 0],
      [relayer |-> 2 * GasToSend(GasPriceWei) - 1, u1 |-> 0] }

\* the handlers compute fees for gasless transfers of a token priced at 1.00
Init ==
    /\ InitState
    /\ fee = [args |-> [token |-> "USDC", token_price_usd |-> 100,
                        is_international |-> FALSE, gasless |-> TRUE],
              quotes |-> << >>]

\* the service starts with a relayer that is short of funds
InitRelayer ==
    /\ InitOf(TightFunding)
    /\ fee = [args |-> [token |-> "USDC", token_price_usd |-> 100,
                        is_international |-> FALSE, gasless |-> TRUE],
              quotes |-> << >>]

CanFault == faults < MaxFaults

\* the TransactionCreate the handler builds for its row
SendCreateData ==
    [ transaction_hash |-> NoHash, transaction_type |-> "send", status |-> "none" ]

\* the position at which the chain call of the handler starts, by token
FirstChainPc(tok) ==
    IF tok = "MATIC" THEN "m_submit"
    ELSE IF GaslessEnabled THEN "check" ELSE "d_submit"

\* a request is refused before a row is opened: the HTTPException carries
\* the reason to the caller, who knows what they asked for
Refused(s, error, response) ==
    [Finished(s, response) EXCEPT !.user = s.user, !.to_address = s.to_address,
                                  !.sender_country = s.sender_country,
                                  !.recipient_country = s.recipient_country,
                                  !.error = error]

\* the recipients of the requests in which every user names the wallet
\* address of another sending user, as stored
OtherWallets == [u \in Users |-> {WalletAddress[t] : t \in Users \ {u}}]

\* the recipients of the requests in which every user may name any identifier
AnyIdentifier == [u \in Users |-> Identifiers]

\* get_user_id_by_wallet_address: the receiver is looked up in the alias
\* table by the destination address as it is spelled
ReceiverUserId(rs, destination) ==
    LET found == GetAddressResolverByWalletAddress(rs, destination)
    IN  IF found = {} THEN "none" ELSE (CHOOSE r \in found : TRUE).user_id

\* a country the request or the profile does not give
NoCountry == "none"

\* the country codes of a request: each is absent or two capital letters
RequestCountries == {NoCountry, "US", "IN"}

\* the requests that give both countries
GivenCountries == {[sender |-> "US", recipient |-> "IN"]}

\* the requests that give any or no countries
AnyCountries == [sender : RequestCountries, recipient : RequestCountries]

\* str.upper() on the country codes of the model
Upper(s) == CASE s = "us" -> "US" [] s = "in" -> "IN" [] OTHER -> s

\* is_international_transaction
IsInternationalTransaction(from_country, to_country) ==
    IF from_country = NoCountry \/ to_country = NoCountry
    THEN FALSE
    ELSE Upper(from_country) # Upper(to_country)

\* send_transaction: the recipient's account as the handler finds it, by
\* phone number or in the alias table by the destination address
RecipientUserObj(rs, to_address, destination) ==
    IF IsPhone(to_address) THEN CHOOSE u \in UserByPhone(to_address) : TRUE
    ELSE ReceiverUserId(rs, destination)

\* send_transaction: the countries of a transfer.  A country the request
\* does not give is read from the country_code of the sender or of the
\* recipient account; the User model has no such attribute, so the read
\* raises AttributeError
TransferCountries(sender_country, recipient_country, recipient_user_obj) ==
    IF sender_country = NoCountry
    THEN [raised |-> TRUE, is_international |-> FALSE]
    ELSE IF recipient_country = NoCountry /\ recipient_user_obj # "none"
    THEN [raised |-> TRUE, is_international |-> FALSE]
    ELSE [raised |-> FALSE,
          is_international |->
              IsInternationalTransaction(sender_country, recipient_country)]

\* send_transaction up to the chain call, for a request whose token is one of
\* toks, whose recipient is one of idents[u] and whose countries are one of
\* countries: PIN and wallet are checked, the recipient is resolved and a
\* transfer to the sender's own wallet is refused, the transfer is classified
\* and its fee computed, the key is decrypted; create_transaction commits the
\* PENDING row; fee, country and recipient columns are committed and the
\* receiver is attached.  An AttributeError or a database error is no
\* HTTPException and no ValueError, so it leaves the handler.
OpenRecord(p, toks, idents, countries) ==
    /\ send[p].pc \in {"idle", "done"}
    /\ \A q \in Procs : q < p => send[q].pc \notin {"idle", "done"}
    /\ started < MaxSends
    /\ started' = started + 1
    /\ notifs' = [notifs EXCEPT ![p] = << >>]
    /\ \E u \in Users, tok \in toks, cc \in countries :
       \E to_address \in idents[u] :
        LET c == CreateTransaction(rows, SendCreateData)
            r == ResolveRecipient(resolvers, u, to_address)
            s == [IdleSend EXCEPT !.user = u, !.to_address = to_address,
                                  !.sender_country = cc.sender,
                                  !.recipient_country = cc.recipient,
                                  !.token = tok]
            k == TransferCountries(cc.sender, cc.recipient,
                                   RecipientUserObj(resolvers, to_address, r.destination))
            t == [s EXCEPT !.to = AccountOf(r.destination),
                           !.to_user_id = ReceiverUserId(resolvers, r.destination),
                           !.is_international = k.is_international]
        IN
        IF r.error # "none"
        THEN /\ send' = [send EXCEPT ![p] = Refused(s, r.error, r.response)]
             /\ UNCHANGED <<rows, faults>>
        ELSE IF k.raised
        THEN /\ send' = [send EXCEPT ![p] = Refused(s, "attribute_error", "error")]
             /\ UNCHANGED <<rows, faults>>
        ELSE \/ /\ ~c.raised
                /\ rows' = c.rows
                /\ send' = [send EXCEPT ![p] = [t EXCEPT !.row = c.id,
                                                         !.pc = FirstChainPc(tok)]]
                /\ UNCHANGED faults
             \/ /\ CanFault                 \* the first commit raises: nothing is stored
                /\ faults' = faults + 1
                /\ send' = [send EXCEPT ![p] = Finished(t, "error")]
                /\ UNCHANGED rows
             \/ /\ CanFault /\ ~c.raised    \* a later database call raises
                /\ faults' = faults + 1
                /\ rows' = c.rows
                /\ send' = [send EXCEPT ![p] = Finished([t EXCEPT !.row = c.id], "error")]
    /\ UNCHANGED <<txs, balance, nonce, finalizes, lastFinalize, lastSync,
                   resolvers, lookups, fee,
                   lastLookup, aliasReq>>

(* ------------------------------------------- the chain call of a request *)

\* the chain call returns: the locals of its frames are gone
Returned(s) ==
    [s EXCEPT !.user_balance = Unset, !.gas_price = Unset,
              !.relayer_balance = Unset, !.relayer_nonce = NoNonce]

\* an exception inside the chain call is caught by the wrapper, which
\* returns {"success": False, "error": str(e)}
ChainError(p, err) ==
    [send EXCEPT ![p] = [Returned(@) EXCEPT !.result = "error", !.error = err,
                                            !.pc = "write_fail"]]

\* any RPC of the chain call may fail or time out
RpcRaises(p) ==
    /\ send[p].pc \in ChainPcs
    /\ CanFault
    /\ faults' = faults + 1
    /\ send' = ChainError(p, "rpc")
    /\ UNCHANGED <<started, rows, txs, balance, nonce, notifs, finalizes, resolvers, lookups, fee,
                   lastFinalize, lastSync,
                   lastLookup, aliasReq>>

\* the value transfer of request p with nonce n
TransferTx(p, n) ==
    IF send[p].token = "MATIC"
    THEN RawTx(send[p].user, send[p].to, n, "native", MaticAmountWei, GasForMaticTransfer)
    ELSE RawTx(send[p].user, send[p].to, n, "token", 0, GasForTokenTransfer)

\* the nonce query of the value transfer: 'pending' on the sponsored path,
\* the default block (latest) on the native and the direct path
TransferNonce(pc, a) == IF pc = "s_submit" THEN PendingNonce(a) ELSE LatestNonce(a)

\* variant: a refused value transfer is submitted again
AfterTransfer_Retry(accepted, pc) == IF accepted THEN "write_ok" ELSE pc

\* what follows send_raw_transaction of the value transfer: the result with
\* success True when the node took it; otherwise the exception leaves the
\* sending function and the wrapper returns success False.  No path leads
\* back to the submission.
AfterTransfer(accepted, pc) == IF accepted THEN "write_ok" ELSE "write_fail"

\* gas price and nonce are read, the value transfer is built, signed with the
\* key of the sender and handed to send_raw_transaction (send_matic_transaction,
\* _send_with_user_gas, Step 2 of _send_with_relayer_gas)
SubmitTransfer(p) ==
    /\ send[p].pc \in {"m_submit", "d_submit", "s_submit"}
    /\ LET n == TransferNonce(send[p].pc, send[p].user)
           s == [Returned(send[p]) EXCEPT
                   !.path = IF send[p].pc = "m_submit" THEN "native" ELSE @]
       IN IF NodeAccepts(send[p].user, n)
          THEN /\ txs' = Append(txs, TransferTx(p, n))
               /\ send' = [send EXCEPT ![p] = [s EXCEPT !.result = "ok",
                                                        !.transfer = Len(txs) + 1,
                                                        !.pc = AfterTransfer(TRUE, send[p].pc)]]
          ELSE /\ send' = [send EXCEPT ![p] = [s EXCEPT !.result = "error",
                                                        !.error = "rejected",
                                                        !.pc = AfterTransfer(FALSE, send[p].pc)]]
               /\ UNCHANGED txs
    /\ UNCHANGED <<started, rows, balance, nonce, notifs, faults, finalizes, resolvers, lookups, fee,
                   lastFinalize, lastSync,
                   lastLookup, aliasReq>>

\* _check_and_send: balance of the sender, gas price, choice of the path
CheckAndSend(p) ==
    /\ send[p].pc = "check"
    /\ LET user_balance == balance[send[p].user]
           estimated_gas_cost == EstimatedGasCost(GasPriceWei)
       IN send' = [send EXCEPT
                     ![p].user_balance = user_balance,
                     ![p].gas_price = GasPriceWei,
                     ![p].path = IF UserHasGas(user_balance, estimated_gas_cost)
                                 THEN "direct" ELSE "sponsored",
                     ![p].pc = IF UserHasGas(user_balance, estimated_gas_cost)
                               THEN "d_submit" ELSE "r_check"]
    /\ UNCHANGED <<started, rows, txs, balance, nonce, notifs, faults, finalizes, resolvers, lookups, fee,
                   lastFinalize, lastSync,
                   lastLookup, aliasReq>>

\* _send_with_relayer_gas up to the check: the balance of the relayer and the
\* gas price are read and the balance is compared with the advance
RelayerCheck(p) ==
    /\ send[p].pc = "r_check"
    /\ LET relayer_balance == balance[Relayer]
           gas_to_send == GasToSend(GasPriceWei)
       IN IF RelayerUnderfunded(relayer_balance, gas_to_send)
          THEN send' = ChainError(p, "relayer_underfunded")
          ELSE send' = [send EXCEPT ![p].relayer_balance = relayer_balance,
                                    ![p].gas_price = GasPriceWei,
                                    ![p].pc = "r_nonce"]
    /\ UNCHANGED <<started, rows, txs, balance, nonce, notifs, faults, finalizes, resolvers, lookups, fee,
                   lastFinalize, lastSync,
                   lastLookup, aliasReq>>

\* Step 1, first call: the latest transaction count of the relayer is read,
\* in a call of its own after the check
RelayerNonce(p) ==
    /\ send[p].pc = "r_nonce"
    /\ send' = [send EXCEPT ![p].relayer_nonce = LatestNonce(Relayer),
                            ![p].pc = "r_submit"]
    /\ UNCHANGED <<started, rows, txs, balance, nonce, notifs, faults, finalizes, resolvers, lookups, fee,
                   lastFinalize, lastSync,
                   lastLookup, aliasReq>>

\* variant: the exception of send_raw_transaction is swallowed and Step 2 runs
AfterAdvance_Swallowed(accepted) == "s_submit"

\* what follows send_raw_transaction of the advance: Step 2 when the node
\* took it, the exception leaves _send_with_relayer_gas otherwise
AfterAdvance(accepted) == IF accepted THEN "s_submit" ELSE "write_fail"

\* Step 1: the relayer signs and submits the advance of gas_to_send
SubmitAdvance(p) ==
    /\ send[p].pc = "r_submit"
    /\ LET accepted == NodeAccepts(Relayer, send[p].relayer_nonce)
           tx == RawTx(Relayer, send[p].user, send[p].relayer_nonce, "advance",
                       GasToSend(send[p].gas_price), GasForMaticTransfer)
       IN IF accepted
          THEN /\ txs' = Append(txs, tx)
               /\ send' = [send EXCEPT ![p].advance = Len(txs) + 1,
                                       ![p].pc = AfterAdvance(TRUE)]
          ELSE /\ UNCHANGED txs
               /\ send' = [ChainError(p, "rejected") EXCEPT
                             ![p].pc = AfterAdvance(FALSE)]
    /\ UNCHANGED <<started, rows, balance, nonce, notifs, faults, finalizes, resolvers, lookups, fee,
                   lastFinalize, lastSync,
                   lastLookup, aliasReq>>

(* ------------------------------------------ the status write of a request *)

\* the notifications of a successful send, in the order of the calls; the
\* notifiers swallow their own exceptions
SuccessNotifications(to_user_id) ==
    <<"sent", "confirmed">> \o (IF to_user_id # "none" THEN <<"received">> ELSE << >>)

\* what the collaborators of the notifiers (notification table, Firebase
\* push, e-mail, Expo push) may do during one run of notify_* calls: work, or
\* fail when the environment may still fail
NotifierOutcomes == {FALSE} \cup (IF CanFault THEN {TRUE} ELSE {})

\* variant: the error of a collaborator leaves the notifier
NotifierRaises_Propagates(failed) == failed

\* create_transaction_notification and the try block around the Expo pushes
\* catch every exception of a collaborator and print it: none reaches
\* send_transaction
NotifierRaises(failed) == FALSE

\* the trace a failed collaborator leaves behind the calls
Swallowed(failed) == IF failed THEN <<"notifier_error">> ELSE << >>

\* if result["success"]: update_transaction_status(CONFIRMED, hash), reload,
\* notify_transaction_sent, _confirmed, _received, the Expo pushes and the
\* TransactionResponse.  Any exception goes to the handler of the try block.
WriteConfirmed(p) ==
    /\ send[p].pc = "write_ok"
    /\ LET u == UpdateTransactionStatus(rows, send[p].row, CONFIRMED, send[p].transfer) IN
       \/ \E failed \in NotifierOutcomes :
             /\ rows' = u.rows
             /\ notifs' = [notifs EXCEPT ![p] = @ \o SuccessNotifications(send[p].to_user_id)
                                                  \o Swallowed(failed)]
             /\ faults' = faults + (IF failed THEN 1 ELSE 0)
             /\ send' = IF NotifierRaises(failed)
                        THEN [send EXCEPT ![p].pc = "handler"]
                        ELSE [send EXCEPT ![p] = Finished(send[p], "200")]
       \/ /\ CanFault                       \* the select or the commit raises
          /\ faults' = faults + 1
          /\ send' = [send EXCEPT ![p].pc = "handler"]
          /\ UNCHANGED <<rows, notifs>>
       \/ /\ CanFault                       \* the refresh or the reload raises
          /\ faults' = faults + 1
          /\ rows' = u.rows
          /\ send' = [send EXCEPT ![p].pc = "handler"]
          /\ UNCHANGED notifs
    /\ UNCHANGED <<started, txs, balance, nonce, finalizes, resolvers, lookups, fee, lastFinalize, lastSync,
                   lastLookup, aliasReq>>

\* else: update_transaction_status(FAILED), reload, notify_transaction_failed,
\* raise HTTPException(400); the exception is raised inside the try block and
\* is caught by its own handler
WriteFailed(p) ==
    /\ send[p].pc = "write_fail"
    /\ LET u == UpdateTransactionStatus(rows, send[p].row, FAILED, NoHash) IN
       \/ \E failed \in NotifierOutcomes :
             /\ rows' = u.rows
             /\ notifs' = [notifs EXCEPT ![p] = Append(@, "failed") \o Swallowed(failed)]
             /\ faults' = faults + (IF failed THEN 1 ELSE 0)
             /\ send' = [send EXCEPT ![p].pc = "handler"]
       \/ /\ CanFault                       \* the select or the commit raises
          /\ faults' = faults + 1
          /\ send' = [send EXCEPT ![p].pc = "handler"]
          /\ UNCHANGED <<rows, notifs>>
       \/ /\ CanFault                       \* the refresh or the reload raises
          /\ faults' = faults + 1
          /\ rows' = u.rows
          /\ send' = [send EXCEPT ![p].pc = "handler"]
          /\ UNCHANGED notifs
    /\ UNCHANGED <<started, txs, balance, nonce, finalizes, resolvers, lookups, fee, lastFinalize, lastSync,
                   lastLookup, aliasReq>>

\* except Exception: update_transaction_status(FAILED), reload,
\* notify_transaction_failed, raise HTTPException(500)
Handler(p) ==
    /\ send[p].pc = "handler"
    /\ LET u == UpdateTransactionStatus(rows, send[p].row, FAILED, NoHash) IN
       \/ \E failed \in NotifierOutcomes :
             /\ rows' = u.rows
             /\ notifs' = [notifs EXCEPT ![p] = Append(@, "failed") \o Swallowed(failed)]
             /\ faults' = faults + (IF failed THEN 1 ELSE 0)
             /\ send' = [send EXCEPT ![p] = Finished(send[p],
                                  IF NotifierRaises(failed) THEN "error" ELSE "500")]
       \/ /\ CanFault                       \* the select or the commit raises
          /\ faults' = faults + 1
          /\ send' = [send EXCEPT ![p] = Finished(send[p], "error")]
          /\ UNCHANGED <<rows, notifs>>
       \/ /\ CanFault                       \* the refresh or the reload raises
          /\ faults' = faults + 1
          /\ rows' = u.rows
          /\ send' = [send EXCEPT ![p] = Finished(send[p], "error")]
          /\ UNCHANGED notifs
    /\ UNCHANGED <<started, txs, balance, nonce, finalizes, resolvers, lookups, fee, lastFinalize, lastSync,
                   lastLookup, aliasReq>>

(* -------------------------------------------------------- the environment *)

\* what a queued transaction costs its sender when it is included in a block
TxCost(tx) == tx.value + tx.gas * GasPriceWei

\* the chain state after transaction h was offered to the block builder: it
\* is included when its nonce is the next one of its sender and the sender
\* can pay for it
Include(c, h) ==
    LET tx == c.txs[h] IN
    IF tx.mined \/ tx.nonce # c.nonce[tx.from] \/ c.balance[tx.from] < TxCost(tx)
    THEN c
    ELSE [ txs |-> [c.txs EXCEPT ![h].mined = TRUE],
           nonce |-> [c.nonce EXCEPT ![tx.from] = @ + 1],
           balance |-> [a \in Accounts |->
                          IF a = tx.from THEN c.balance[a] - TxCost(tx)
                          ELSE IF a = tx.to /\ tx.kind # "token"
                               THEN c.balance[a] + tx.value
                               ELSE c.balance[a]] ]

RECURSIVE IncludeFrom(_, _)
IncludeFrom(c, h) ==
    IF h > Len(c.txs) THEN c ELSE IncludeFrom(Include(c, h), h + 1)

\* the chain produces a block: the queued transactions are included in the
\* order of their arrival
MineBlock ==
    /\ \E h \in 1..Len(txs) : ~txs[h].mined
    /\ LET c == IncludeFrom([txs |-> txs, nonce |-> nonce, balance |-> balance], 1) IN
       /\ c.txs # txs
       /\ txs' = c.txs
       /\ nonce' = c.nonce
       /\ balance' = c.balance
    /\ UNCHANGED <<started, rows, send, notifs, faults, finalizes, resolvers, lookups, fee, lastFinalize,
                   lastSync,
                   lastLookup, aliasReq>>

\* the confirmation source calls update_transaction_status on some row
Finalize ==
    /\ finalizes < MaxFinalize
    /\ \E id \in 1..(Len(rows) + 1), st \in Terminal, h \in 0..Len(txs) :
          LET u == UpdateTransactionStatus(rows, id, st, h) IN
          /\ (st = FAILED) = (h = NoHash)    \* a confirmation carries the hash it saw
          /\ h # NoHash => txs[h].mined /\ txs[h].kind # "advance"
          /\ rows' = u.rows
          /\ lastFinalize' = [row |-> id, status |-> st, hash |-> h,
                              found |-> u.found, raised |-> u.raised]
    /\ finalizes' = finalizes + 1
    /\ UNCHANGED <<started, send, txs, balance, nonce, notifs, faults, lastSync,
                   resolvers, lookups, fee,
                   lastLookup, aliasReq>>

\* the mapped columns of Transaction that hold a chain identifier
HashColumns == {"tx_hash", "block_hash"}

\* get_transaction_by_hash: the query names Transaction.transaction_hash; an
\* attribute the class does not define raises AttributeError before the
\* query is sent
GetTransactionByHash(rs, h) ==
    IF "transaction_hash" \notin HashColumns
    THEN [raised |-> TRUE, row |-> NoRow]
    ELSE LET found == {i \in 1..Len(rs) : rs[i].tx_hash = h}
         IN  [raised |-> FALSE,
              row |-> IF found = {} THEN NoRow ELSE CHOOSE i \in found : TRUE]

\* a caller looks a chain identifier up, one the chain has issued or the next
\* one, which no row can carry
LookupByHash ==
    /\ \E h \in 1..(Len(txs) + 1) :
          LET r == GetTransactionByHash(rows, h) IN
          lastLookup' = [hash |-> h, raised |-> r.raised, row |-> r.row]
    /\ lastLookup' # lastLookup
    /\ UNCHANGED <<rows, send, txs, balance, nonce, notifs, started, faults,
                   finalizes, lastFinalize, lastSync, resolvers, lookups, fee, aliasReq>>

(* ------------------------------------------------------ the synchroniser *)

\* _check_transaction_exists: the query names Transaction.transaction_hash,
\* which the model class does not define; the AttributeError is caught by
\* the method's own except clause, which returns False
CheckTransactionExists(rs, h) == FALSE

\* the keyword arguments sync_user_transactions passes to TransactionCreate
SyncFields == {"from_address", "to_address", "amount", "token_id", "transaction_type",
               "status", "transaction_hash", "fee", "gas_used", "from_user_id",
               "to_user_id", "is_external"}

\* the TransactionCreate of one chain transaction seen from the wallet of u
SyncCreateData(h, u) ==
    [ transaction_hash |-> h,
      transaction_type |-> IF txs[h].from = u THEN "send" ELSE "receive",
      status |-> CONFIRMED ]

\* get_blockchain_transactions(wallet_address): the included transactions
\* sent from or to the wallet
BlockchainTransactions(u) ==
    {h \in 1..Len(txs) : txs[h].mined /\ (txs[h].from = u \/ txs[h].to = u)}

\* one iteration of the loop over the chain transactions; every exception of
\* the iteration is caught and the loop continues
SyncOne(st, h, u) ==
    IF CheckTransactionExists(st.rows, h)
    THEN [st EXCEPT !.skipped_count = @ + 1]
    ELSE IF ~TransactionCreateValid(SyncFields)
    THEN st
    ELSE LET c == CreateTransaction(st.rows, SyncCreateData(h, u)) IN
         IF c.raised THEN st
         ELSE [st EXCEPT !.rows = c.rows, !.synced_count = @ + 1]

\* the loop over the chain transactions of the wallet, from transaction h on
RECURSIVE SyncLoop(_, _, _)
SyncLoop(st, h, u) ==
    IF h > Len(txs) THEN st
    ELSE SyncLoop(IF h \in BlockchainTransactions(u) THEN SyncOne(st, h, u) ELSE st,
                  h + 1, u)

\* sync_user_transactions(db, user_id, wallet_address)
Sync(u) ==
    /\ BlockchainTransactions(u) # {}       \* "No transactions found to sync"
    /\ LET r == SyncLoop([rows |-> rows, synced_count |-> 0, skipped_count |-> 0], 1, u)
       IN /\ rows' = r.rows
          /\ lastSync' = [success |-> TRUE,
                          synced_count |-> r.synced_count,
                          skipped_count |-> r.skipped_count]
          \* a run that stores nothing and returns what the last one returned
          \* leaves the state as it is
          /\ rows' # rows \/ lastSync' # lastSync
    /\ UNCHANGED <<started, send, txs, balance, nonce, notifs, faults, finalizes, resolvers, lookups, fee,
                   lastFinalize,
                   lastLookup, aliasReq>>

(* ------------------------------------------------ the alias endpoints *)

\* the handles a user may ask for, as typed
Handles == {"abc", "Abc", "xyz", "pay"}

\* get_address_resolver_by_user_id
GetAddressResolverByUserId(rs, user_id) == {r \in rs : r.user_id = user_id}

\* get_address_resolver_by_username: the stored column is compared with the
\* lowercased argument
GetAddressResolverByUsername(rs, username) ==
    {r \in rs : r.username = Lower(username)}

\* POST /create: the schema lowercases the handle; a user who has an alias
\* and a handle that is taken are refused (400) and nothing is stored;
\* otherwise the alias is stored with the wallet address of the user
CreateUserAddressResolver(u, handle) ==
    LET username == Lower(handle) IN
    /\ resolvers' =
          IF \/ GetAddressResolverByUserId(resolvers, u) # {}
             \/ GetAddressResolverByUsername(resolvers, username) # {}
          THEN resolvers
          ELSE resolvers \cup {NewResolver(u, WalletAddress[u], username)}
    /\ UNCHANGED <<rows, send, txs, balance, nonce, notifs, started, faults,
                   finalizes, lastFinalize, lastSync, lookups, fee,
                   lastLookup, aliasReq>>

\* update_address_resolver: the row of the user with a new handle
Renamed(resolver, username) ==
    [resolver EXCEPT !.username = username, !.full_address = username \o "@dari"]

\* PUT /update: a user without an alias is refused (404), a handle that
\* differs from the current one and is taken is refused (400); otherwise the
\* handle and the full address of the user's row are replaced
UpdateUserAddressResolver(u, handle) ==
    LET username == Lower(handle)
        current == GetAddressResolverByUserId(resolvers, u)
    IN
    /\ resolvers' =
          IF current = {} THEN resolvers
          ELSE LET current_resolver == CHOOSE r \in current : TRUE IN
               IF /\ username # current_resolver.username
                  /\ GetAddressResolverByUsername(resolvers, username) # {}
               THEN resolvers
               ELSE (resolvers \ {current_resolver})
                       \cup {Renamed(current_resolver, username)}
    /\ UNCHANGED <<rows, send, txs, balance, nonce, notifs, started, faults,
                   finalizes, lastFinalize, lastSync, lookups, fee,
                   lastLookup, aliasReq>>

\* delete_address_resolver: the row of the user is deleted
DeleteAddressResolver(u) ==
    /\ resolvers' = resolvers \ GetAddressResolverByUserId(resolvers, u)
    /\ UNCHANGED <<rows, send, txs, balance, nonce, notifs, started, faults,
                   finalizes, lastFinalize, lastSync, lookups, fee,
                   lastLookup, aliasReq>>

\* POST /resolve for an alias: resolve_address; a None is answered with 404,
\* a result is returned to the caller
ResolveEndpoint(address) ==
    LET result == ResolveAddress(resolvers, address) IN
    /\ lookups' = IF result = NoAddress THEN lookups
                  ELSE [lookups EXCEPT ![Lower(address)] = @ \cup {result}]
    /\ UNCHANGED <<rows, send, txs, balance, nonce, notifs, started, faults,
                   finalizes, lastFinalize, lastSync, resolvers, fee,
                   lastLookup, aliasReq>>

(* -------------------------------- the alias endpoints, step by step *)

\* variant: the columns carry no unique constraint
UniqueViolation_Unconstrained(rs, row) == FALSE

\* the database refuses a commit that would store a second row with the
\* user_id, the username or the full_address of a stored row (unique=True on
\* the three columns): IntegrityError
UniqueViolation(rs, row) ==
    \E r \in rs : \/ r.user_id = row.user_id
                  \/ r.username = row.username
                  \/ r.full_address = row.full_address

\* an alias request has answered: its frame is gone, the caller knows what
\* they asked for and the response
AliasDone(r, response) ==
    [IdleAlias EXCEPT !.pc = "done", !.user = r.user, !.username = r.username,
                      !.response = response]

\* the alias endpoint is entered: the schema validates and lowercases the
\* handle before the handler runs
AliasBegin(p) ==
    /\ aliasReq[p].pc \in {"idle", "done"}
    /\ \E op \in {"create", "update"}, u \in Users, handle \in Handles :
          aliasReq' = [aliasReq EXCEPT ![p] =
                         [pc |-> IF op = "create" THEN "c_user" ELSE "u_user",
                          op |-> op, user |-> u, username |-> Lower(handle),
                          current |-> "none", response |-> "none"]]
    /\ UNCHANGED <<rows, send, txs, balance, nonce, notifs, started, faults,
                   finalizes, lastFinalize, lastSync, resolvers, lookups, fee,
                   lastLookup>>

\* POST /create, first query: a user who has an alias is refused (400)
CreateCheckUser(p) ==
    /\ aliasReq[p].pc = "c_user"
    /\ aliasReq' = [aliasReq EXCEPT ![p] =
                      IF GetAddressResolverByUserId(resolvers, @.user) # {}
                      THEN AliasDone(@, "400")
                      ELSE [@ EXCEPT !.pc = "c_name"]]
    /\ UNCHANGED <<rows, send, txs, balance, nonce, notifs, started, faults,
                   finalizes, lastFinalize, lastSync, resolvers, lookups, fee,
                   lastLookup>>

\* POST /create, second query: a handle that is taken is refused (400)
CreateCheckName(p) ==
    /\ aliasReq[p].pc = "c_name"
    /\ aliasReq' = [aliasReq EXCEPT ![p] =
                      IF GetAddressResolverByUsername(resolvers, @.username) # {}
                      THEN AliasDone(@, "400")
                      ELSE [@ EXCEPT !.pc = "c_insert"]]
    /\ UNCHANGED <<rows, send, txs, balance, nonce, notifs, started, faults,
                   finalizes, lastFinalize, lastSync, resolvers, lookups, fee,
                   lastLookup>>

\* POST /create, create_address_resolver: the wallet of the user is read and
\* the row is added and committed; an IntegrityError of the commit is caught
\* by the handler and answered with 500
CreateInsert(p) ==
    /\ aliasReq[p].pc = "c_insert"
    /\ LET row == NewResolver(aliasReq[p].user, WalletAddress[aliasReq[p].user],
                              aliasReq[p].username)
       IN IF UniqueViolation(resolvers, row)
          THEN /\ aliasReq' = [aliasReq EXCEPT ![p] = AliasDone(@, "500")]
               /\ UNCHANGED resolvers
          ELSE /\ aliasReq' = [aliasReq EXCEPT ![p] = AliasDone(@, "200")]
               /\ resolvers' = resolvers \cup {row}
    /\ UNCHANGED <<rows, send, txs, balance, nonce, notifs, started, faults,
                   finalizes, lastFinalize, lastSync, lookups, fee,
                   lastLookup>>

\* PUT /update, query of the handler: a user without an alias is refused (404)
UpdateCheckUser(p) ==
    /\ aliasReq[p].pc = "u_user"
    /\ aliasReq' = [aliasReq EXCEPT ![p] =
                      IF GetAddressResolverByUserId(resolvers, @.user) = {}
                      THEN AliasDone(@, "404")
                      ELSE [@ EXCEPT !.pc = "u_current"]]
    /\ UNCHANGED <<rows, send, txs, balance, nonce, notifs, started, faults,
                   finalizes, lastFinalize, lastSync, resolvers, lookups, fee,
                   lastLookup>>

\* update_address_resolver, first query: the current row of the user; None
\* is returned when it is gone, and the HTTPException(404) the handler raises
\* for it inside its try block is caught by except Exception (500)
UpdateReadCurrent(p) ==
    /\ aliasReq[p].pc = "u_current"
    /\ LET current == GetAddressResolverByUserId(resolvers, aliasReq[p].user) IN
       aliasReq' = [aliasReq EXCEPT ![p] =
                      IF current = {} THEN AliasDone(@, "500")
                      ELSE LET current_resolver == CHOOSE r \in current : TRUE IN
                           [@ EXCEPT !.current = current_resolver.username,
                                     !.pc = IF aliasReq[p].username
                                                  # current_resolver.username
                                            THEN "u_name" ELSE "u_write"]]
    /\ UNCHANGED <<rows, send, txs, balance, nonce, notifs, started, faults,
                   finalizes, lastFinalize, lastSync, resolvers, lookups, fee,
                   lastLookup>>

\* update_address_resolver, second query: a new handle that is taken raises
\* ValueError (400)
UpdateCheckName(p) ==
    /\ aliasReq[p].pc = "u_name"
    /\ aliasReq' = [aliasReq EXCEPT ![p] =
                      IF GetAddressResolverByUsername(resolvers, @.username) # {}
                      THEN AliasDone(@, "400")
                      ELSE [@ EXCEPT !.pc = "u_write"]]
    /\ UNCHANGED <<rows, send, txs, balance, nonce, notifs, started, faults,
                   finalizes, lastFinalize, lastSync, resolvers, lookups, fee,
                   lastLookup>>

\* update_address_resolver, UPDATE ... WHERE user_id = :user_id and commit:
\* handle and full address of the rows of the user are replaced; an
\* IntegrityError, or the refresh of a row that is gone, is answered with 500
UpdateWrite(p) ==
    /\ aliasReq[p].pc = "u_write"
    /\ LET mine == GetAddressResolverByUserId(resolvers, aliasReq[p].user)
           others == resolvers \ mine
           renamed == {Renamed(r, aliasReq[p].username) : r \in mine}
       IN IF mine = {} \/ \E row \in renamed : UniqueViolation(others, row)
          THEN /\ aliasReq' = [aliasReq EXCEPT ![p] = AliasDone(@, "500")]
               /\ UNCHANGED resolvers
          ELSE /\ aliasReq' = [aliasReq EXCEPT ![p] = AliasDone(@, "200")]
               /\ resolvers' = others \cup renamed
    /\ UNCHANGED <<rows, send, txs, balance, nonce, notifs, started, faults,
                   finalizes, lastFinalize, lastSync, lookups, fee,
                   lastLookup>>

\* one step of request p of the alias endpoints
AliasStep(p) ==
    \/ AliasBegin(p)
    \/ CreateCheckUser(p)
    \/ CreateCheckName(p)
    \/ CreateInsert(p)
    \/ UpdateCheckUser(p)
    \/ UpdateReadCurrent(p)
    \/ UpdateCheckName(p)
    \/ UpdateWrite(p)

(* ----------------------------------------------------- the fee engine *)

\* Decimal arithmetic is exact on the values of the model (no product or
\* quotient needs more than the 28 digits of the default context), so a
\* Decimal is a natural number of some unit.  A number too large for one
\* machine integer is a pair <<hi, lo>> that stands for hi * Base + lo.
Base == 10000

Norm(hi, lo) == <<hi + (lo \div Base), lo % Base>>

\* x * k
Times(x, k) == Norm(x[1] * k, x[2] * k)

\* x < y
Less(x, y) == x[1] < y[1] \/ (x[1] = y[1] /\ x[2] < y[2])

\* x / d as a whole number q and the rest r of the division by d
DivMod(x, d) ==
    LET t == (x[1] % d) * Base + x[2]
    IN  [q |-> (x[1] \div d) * Base + (t \div d), r |-> t % d, d |-> d]

\* FeeService.DOMESTIC_FEE_PERCENT and INTERNATIONAL_FEE_PERCENT, in percent
DomesticFeePercent == 1
InternationalFeePercent == 2

\* FeeService.MIN_PLATFORM_FEE, MAX_PLATFORM_FEE and FREE_THRESHOLD, in cents
MinPlatformFee == 10
MaxPlatformFee == 5000
FreeThreshold == 100

\* estimate_gas_fee: the gas price in Gwei, the gas of a native and of an
\* ERC20 transfer, the approximate price of MATIC in cents
GasPriceGwei == 30
DefaultEstimatedGas == 21000
Erc20EstimatedGas == 65000
ApproximateMaticPrice == 50

\* an amount of whole tokens and millionths of a token, in millionths
Amount(whole, micro) == Norm(whole * 100, micro)

\* the amounts of the requests, in millionths of a token
Amounts ==
    { Amount(0, 500000), Amount(0, 999999), Amount(1, 0), Amount(1, 500000),
      Amount(3, 0), Amount(10, 25), Amount(10, 50), Amount(10, 150),
      Amount(100, 0), Amount(1000, 0), Amount(6000, 0) }

\* tokens.current_price_usd, in cents
Prices == {50, 100, 256}

\* amount_usd = amount * token_price_usd with the price taken as 1.0
AmountUsd_Unpriced(amount, token_price_usd) == Times(amount, 100)

\* amount_usd = amount * token_price_usd, in units of 10^-8 USD
AmountUsd(amount, token_price_usd) == Times(amount, token_price_usd)

\* cents in units of 10^-8 USD and of 10^-10 USD
CentsE8(c) == <<c * 100, 0>>
CentsE10(c) == <<c * Base, 0>>

\* amount_usd < FREE_THRESHOLD
BelowFreeThreshold(amount_usd) == Less(amount_usd, CentsE8(FreeThreshold))

\* the band with a fee above the maximum replaced by the minimum
ClampFee_CapToMin(fee_usd) ==
    IF Less(CentsE10(MaxPlatformFee), fee_usd) \/ Less(fee_usd, CentsE10(MinPlatformFee))
    THEN CentsE10(MinPlatformFee) ELSE fee_usd

\* max(MIN_PLATFORM_FEE, min(fee_usd, MAX_PLATFORM_FEE)), in units of 10^-10 USD
ClampFee(fee_usd) ==
    LET capped == IF Less(CentsE10(MaxPlatformFee), fee_usd)
                  THEN CentsE10(MaxPlatformFee) ELSE fee_usd
    IN  IF Less(capped, CentsE10(MinPlatformFee))
        THEN CentsE10(MinPlatformFee) ELSE capped

\* Decimal.quantize(Decimal("0.000001")): the default context rounds
\* half to even.  v is a number of millionths, v.q + v.r / v.d
Quantize(v) ==
    IF 2 * v.r < v.d THEN v.q
    ELSE IF 2 * v.r > v.d THEN v.q + 1
    ELSE IF v.q % 2 = 0 THEN v.q ELSE v.q + 1

\* calculate_platform_fee before the result is rounded: fee_usd /
\* token_price_usd in millionths of a token, as a whole number and a rest
FeeTokens(amount, is_international, token_price_usd) ==
    LET amount_usd == AmountUsd(amount, token_price_usd)
        fee_percent == IF is_international THEN InternationalFeePercent
                       ELSE DomesticFeePercent
        fee_usd == ClampFee(Times(amount_usd, fee_percent))
    IN  IF BelowFreeThreshold(amount_usd) \/ token_price_usd <= 0
        THEN [q |-> 0, r |-> 0, d |-> 1]
        ELSE DivMod(fee_usd, 100 * token_price_usd)

\* calculate_platform_fee, in millionths of a token
CalculatePlatformFee(amount, is_international, token_price_usd) ==
    Quantize(FeeTokens(amount, is_international, token_price_usd))

\* estimate_gas_fee: gas_fee_matic in units of 10^-9 MATIC and gas_fee_usd
\* in units of 10^-9 USD
EstimateGasFee(token, estimated_gas) ==
    LET gas == IF token = "USDC" THEN Erc20EstimatedGas ELSE estimated_gas
    IN  [ estimated_gas |-> gas,
          gas_price_gwei |-> GasPriceGwei,
          gas_fee_matic |-> gas * GasPriceGwei,
          gas_fee_usd |-> (gas * GasPriceGwei * ApproximateMaticPrice) \div 100 ]

\* calculate_total_fee with the user charged for gas in either mode
UserGasFee_Charged(is_gasless, gas_fee_tokens) == gas_fee_tokens

\* calculate_total_fee: user_gas_fee
UserGasFee(is_gasless, gas_fee_tokens) ==
    IF is_gasless THEN [q |-> 0, r |-> 0, d |-> 1] ELSE gas_fee_tokens

\* calculate_total_fee: token amounts are millionths of a token with a rest
\* (q + r / d), USD amounts are in units of 10^-9 USD; platform_fee_usd is
\* the platform fee times the price in units of 10^-8 USD
CalculateTotalFee(amount, token, is_international, token_price_usd, gasless) ==
    LET is_gasless == gasless
        platform_fee == CalculatePlatformFee(amount, is_international, token_price_usd)
        gas_estimates == EstimateGasFee(token, DefaultEstimatedGas)
        gas_fee_tokens ==
            IF token = "MATIC"
            THEN DivMod(Norm(0, gas_estimates.gas_fee_matic), 1000)
            ELSE DivMod(Norm(0, gas_estimates.gas_fee_usd), 10 * token_price_usd)
        user_gas_fee == UserGasFee(is_gasless, gas_fee_tokens)
    IN  [ amount |-> amount,
          platform_fee |-> platform_fee,
          gas_fee |-> user_gas_fee,
          actual_gas_fee |-> gas_fee_tokens,
          total_fee |-> [user_gas_fee EXCEPT !.q = @ + platform_fee],
          gasless_mode |-> is_gasless,
          platform_fee_usd |-> Times(Norm(0, platform_fee), token_price_usd),
          gas_fee_usd |-> gas_estimates.gas_fee_usd,
          user_gas_fee_usd |-> IF is_gasless THEN 0 ELSE gas_estimates.gas_fee_usd,
          dari_subsidy_usd |-> IF is_gasless THEN gas_estimates.gas_fee_usd ELSE 0 ]

\* the arguments of calculate_total_fee other than the amount
FeeArguments ==
    [ token : Tokens, token_price_usd : Prices, is_international : BOOLEAN,
      gasless : BOOLEAN ]

\* the fee engine is called with any arguments
InitFee ==
    /\ InitState
    /\ \E args \in FeeArguments : fee = [args |-> args, quotes |-> << >>]

\* one call of calculate_total_fee with the arguments of the state and
\* some amount; the last two breakdowns are kept
Quote ==
    /\ \E amount \in Amounts :
          fee' = [fee EXCEPT !.quotes =
                     <<CalculateTotalFee(amount, fee.args.token,
                                         fee.args.is_international,
                                         fee.args.token_price_usd,
                                         fee.args.gasless)>>
                     \o (IF fee.quotes = << >> THEN << >> ELSE <<fee.quotes[1]>>)]
    /\ UNCHANGED <<rows, send, txs, balance, nonce, notifs, started, faults,
                   finalizes, lastFinalize, lastSync, resolvers, lookups,
                   lastLookup, aliasReq>>

(* ------------------------------------------------------- specifications *)

SendStep(p, toks) ==
    \/ OpenRecord(p, toks, OtherWallets, GivenCountries)
    \/ RpcRaises(p)
    \/ CheckAndSend(p)
    \/ RelayerCheck(p)
    \/ RelayerNonce(p)
    \/ SubmitAdvance(p)
    \/ SubmitTransfer(p)
    \/ WriteConfirmed(p)
    \/ WriteFailed(p)
    \/ Handler(p)

Next ==
    \/ \E p \in Procs : SendStep(p, {"USDC"})
    \/ MineBlock

\* the steps of a request that sends the native token
NativeStep(p, idents, countries) ==
    \/ OpenRecord(p, {"MATIC"}, idents, countries)
    \/ RpcRaises(p)
    \/ SubmitTransfer(p)
    \/ WriteConfirmed(p)
    \/ WriteFailed(p)
    \/ Handler(p)

NextSync ==
    \/ \E p \in Procs : NativeStep(p, OtherWallets, GivenCountries)
    \/ MineBlock
    \/ \E u \in Users : Sync(u)

NextRecipient ==
    \/ \E p \in Procs : NativeStep(p, AnyIdentifier, GivenCountries)
    \/ MineBlock

NextCountry ==
    \/ \E p \in Procs : NativeStep(p, OtherWallets, AnyCountries)
    \/ MineBlock

NextLookup ==
    \/ \E p \in Procs : NativeStep(p, OtherWallets, GivenCountries)
    \/ MineBlock
    \/ LookupByHash

NextAlias ==
    \/ \E u \in Users, handle \in Handles : CreateUserAddressResolver(u, handle)
    \/ \E u \in Users, handle \in Handles : UpdateUserAddressResolver(u, handle)
    \/ \E u \in Users : DeleteAddressResolver(u)
    \/ \E address \in DariIdents : ResolveEndpoint(address)

NextAliasRace ==
    \/ \E p \in Procs : AliasStep(p)
    \/ \E u \in Users : (DeleteAddressResolver(u) /\ resolvers' # resolvers)

NextFee == Quote

NextAll ==
    \/ \E p \in Procs : SendStep(p, Tokens)
    \/ MineBlock

NextLedger ==
    \/ \E p \in Procs : SendStep(p, Tokens)
    \/ MineBlock
    \/ Finalize

\* token sends through the relay and the chain
Spec == Init /\ [][Next]_vars

\* native sends, the chain and the synchroniser
SpecSync == Init /\ [][NextSync]_vars

\* native sends to recipients named by alias, phone number or raw address,
\* and the chain
SpecRecipient == Init /\ [][NextRecipient]_vars

\* native sends that give any or no countries, and the chain
SpecCountry == Init /\ [][NextCountry]_vars

\* native sends, the chain and lookups by chain identifier
SpecLookup == Init /\ [][NextLookup]_vars

\* concurrent requests of the alias endpoints, query by query
SpecAliasRace == Init /\ [][NextAliasRace]_vars

\* token sends with a relayer that is short of funds
SpecRelayer == InitRelayer /\ [][Next]_vars

\* the alias endpoints
SpecAlias == Init /\ [][NextAlias]_vars

\* the fee engine
SpecFee == InitFee /\ [][NextFee]_vars

\* sends of every token and the chain
SpecAll == Init /\ [][NextAll]_vars

\* sends of every token, the chain and the confirmation source
SpecLedger == Init /\ [][NextLedger]_vars

(* ------------------------------------------------------------ properties *)

\* C1: once the status of a ledger row is CONFIRMED or FAILED, no call of
\* update_transaction_status (of the confirmation source or of
\* send_transaction) changes it again
C1_TerminalStatusNeverChanges ==
    [][\A id \in 1..Len(rows) :
          rows[id].status \in Terminal => rows'[id].status = rows[id].status]_vars

\* C2: a chain identifier attached to the row of a send is never attached to
\* a different row by a later update_transaction_status call that returns
\* normally: the second attachment raises
C2_DuplicateIdentifierRaises ==
    \A p \in Procs :
        ( /\ send[p].response = "200"
          /\ lastFinalize.found
          /\ lastFinalize.hash # NoHash
          /\ lastFinalize.hash = send[p].transfer
          /\ lastFinalize.row # send[p].row )
        => lastFinalize.raised

\* C3: every value transfer on chain is represented by at most one ledger
\* row, counting the row of the send that submitted it and the rows that
\* carry its identifier
C3_OneRowPerTransfer ==
    \A h \in 1..Len(txs) :
        txs[h].kind # "advance" =>
            Cardinality({id \in 1..Len(rows) :
                            \/ rows[id].tx_hash = h
                            \/ \E p \in Procs : send[p].row = id /\ send[p].transfer = h})
                <= 1

\* a send has ended, its transfer is the only transaction on chain and is
\* included, and the synchroniser has gone over the chain transactions
C3_Witness ==
    /\ lastSync.success
    /\ Len(txs) = 1
    /\ txs[1].mined
    /\ \E p \in Procs : Ended(p) /\ send[p].transfer = 1 /\ send[p].row \in 1..Len(rows)

\* C4: the row a send_transaction request opened is CONFIRMED or FAILED when
\* the request has ended
C4_NoPendingRowAfterSend ==
    \A p \in Procs :
        (Ended(p) /\ send[p].row # NoRow) => rows[send[p].row].status \in Terminal

\* C5: when a send_transaction request has ended, its row is CONFIRMED if
\* and only if send_raw_transaction returned an identifier for the transfer
C5_ConfirmedIffTransferAccepted ==
    \A p \in Procs :
        (Ended(p) /\ send[p].row # NoRow) =>
            ((rows[send[p].row].status = CONFIRMED) <=> (send[p].transfer # NoHash))

\* C6: a sponsored send never signs and submits its advance with the relayer
\* nonce that the advance of another sender's send, in flight at the same
\* time, was signed with
C6_RelayerNonceNotShared ==
    [][\A p, q \in Procs :
          ( /\ p # q
            /\ send[p].pc = "r_submit"
            /\ send'[p].advance # NoHash \/ send'[p].error = "rejected"
            /\ send[q].pc \notin {"idle", "done"}
            /\ send[q].user # send[p].user
            /\ send[q].advance # NoHash )
          => txs[send[q].advance].nonce # send[p].relayer_nonce]_vars

\* C7: a sponsored send queries the nonce of the sender and submits the value
\* transfer only after the node took its advance: the advance is on chain,
\* from the relayer to the sender, and precedes the transfer
C7_AdvanceBeforeTransfer ==
    \A p \in Procs :
        ( /\ send[p].path = "sponsored"
          /\ send[p].pc = "s_submit" \/ send[p].transfer # NoHash )
        => /\ send[p].advance \in 1..Len(txs)
           /\ txs[send[p].advance].kind = "advance"
           /\ txs[send[p].advance].from = Relayer
           /\ send[p].transfer # NoHash => send[p].advance < send[p].transfer

\* a sponsored send has submitted its advance and then its transfer
C7_Witness ==
    \E p \in Procs :
        /\ send[p].path = "sponsored"
        /\ send[p].advance # NoHash
        /\ send[p].transfer # NoHash

\* C8: the send takes the direct path, on which no advance is submitted, if
\* and only if the balance of the sender is at least gas_price * 100000;
\* otherwise it takes the sponsored path
C8_DirectIffBalanceCoversGas ==
    \A p \in Procs :
        /\ send[p].user_balance # Unset =>
              /\ send[p].path = "direct"
                    <=> send[p].user_balance >= send[p].gas_price * GasForTokenTransfer
              /\ send[p].path = "sponsored"
                    <=> send[p].user_balance < send[p].gas_price * GasForTokenTransfer
        /\ send[p].path = "direct" =>
              send[p].advance = NoHash /\ send[p].relayer_nonce = NoNonce

\* the only transaction on chain is the queued transfer of a request on the
\* direct path, and the balance of its sender equals the estimated gas cost
C8_Witness ==
    \E p \in Procs :
        /\ send[p].path = "direct"
        /\ send[p].transfer = 1
        /\ Len(txs) = 1
        /\ ~txs[1].mined
        /\ balance[txs[1].from] = GasPriceWei * GasForTokenTransfer

\* C9: a send goes on to sign the advance only with a relayer balance that
\* covers it; the chain call that found the relayer underfunded returns the
\* relayer-underfunded error, and its request submits neither an advance nor
\* a transfer and does not succeed
C9_UnderfundedRelayerSubmitsNothing ==
    \A p \in Procs :
        /\ send[p].pc = "r_submit" =>
              send[p].relayer_balance >= GasToSend(send[p].gas_price)
        /\ send[p].error = "relayer_underfunded" =>
              /\ send[p].result = "error"
              /\ send[p].advance = NoHash
              /\ send[p].transfer = NoHash
              /\ send[p].response # "200"
        /\ (send[p].path = "sponsored" /\ balance[Relayer] = 0 /\ txs = << >>
              /\ send[p].pc \in {"write_fail", "handler", "done"}
              /\ send[p].error # "rpc")
           => send[p].error = "relayer_underfunded"

\* relayer and sender hold nothing, the request has ended with the
\* relayer-underfunded failure and the chain has seen no transaction
C9_Witness ==
    \E p \in Procs :
        /\ Ended(p)
        /\ send[p].error = "relayer_underfunded"
        /\ balance[Relayer] = 0
        /\ txs = << >>

\* C10: a request is in its chain call, or has submitted an advance or a
\* transfer, only with its PENDING row committed to the ledger
C10_RowCommittedBeforeSubmission ==
    \A p \in Procs :
        /\ send[p].pc \in ChainPcs =>
              /\ send[p].row \in 1..Len(rows)
              /\ rows[send[p].row].status = PENDING
        /\ (send[p].advance # NoHash \/ send[p].transfer # NoHash) =>
              send[p].row \in 1..Len(rows)

\* a request has submitted its transfer while its row is PENDING
C10_Witness ==
    \E p \in Procs :
        /\ send[p].pc = "write_ok"
        /\ send[p].transfer # NoHash
        /\ send[p].row \in 1..Len(rows)
        /\ rows[send[p].row].status = PENDING

\* C11: a request has issued a notification (sent, confirmed, received or
\* failed) only with its ledger row written CONFIRMED or FAILED
C11_NotificationsAfterStatusWrite ==
    \A p \in Procs :
        notifs[p] # << >> =>
            /\ send[p].row \in 1..Len(rows)
            /\ rows[send[p].row].status \in Terminal
            /\ (\E i \in DOMAIN notifs[p] : notifs[p][i] \in {"sent", "confirmed", "received"})
                  => send[p].transfer # NoHash

\* a request has issued the notifications of a successful send and its row
\* is CONFIRMED
C11_Witness ==
    \E p \in Procs :
        /\ \E i \in DOMAIN notifs[p] : notifs[p][i] = "sent"
        /\ \E i \in DOMAIN notifs[p] : notifs[p][i] = "received"
        /\ rows[send[p].row].status = CONFIRMED

\* C12: a request whose notification collaborators failed leaves the row as
\* the status write before the notifications made it: CONFIRMED after the
\* notifications of a success, with the success response and no failure
\* notification, FAILED after those of a failure
C12_NotifierFailureKeepsStatus ==
    \A p \in Procs :
        (\E i \in DOMAIN notifs[p] : notifs[p][i] = "notifier_error") =>
            IF \E i \in DOMAIN notifs[p] : notifs[p][i] = "confirmed"
            THEN /\ rows[send[p].row].status = CONFIRMED
                 /\ send[p].response = "200"
                 /\ \A i \in DOMAIN notifs[p] : notifs[p][i] # "failed"
            ELSE rows[send[p].row].status = FAILED

\* a collaborator failed during the notifications of a successful send; the
\* request has ended with the success response and its row is CONFIRMED
C12_Witness ==
    \E p \in Procs :
        /\ Ended(p)
        /\ send[p].response = "200"
        /\ notifs[p][Len(notifs[p])] = "notifier_error"
        /\ rows[send[p].row].status = CONFIRMED

\* C13: a request whose recipient is an alias that is absent from the alias
\* table or marked inactive is refused with the unknown-alias error (404); it
\* opens no row and submits nothing to the chain.
C13_UnknownAliasRefused ==
    \A p \in Procs :
        ( /\ send[p].to_address \in DariIdents
          /\ ~\E r \in resolvers :
                 r.full_address = Lower(send[p].to_address) /\ r.is_active )
        => /\ Ended(p)
           /\ send[p].error = "unknown_alias"
           /\ send[p].response = "404"
           /\ send[p].row = NoRow
           /\ send[p].advance = NoHash
           /\ send[p].transfer = NoHash

\* a request naming the deactivated alias was refused; the table holds no row
\* and the chain no transaction
C13_Witness ==
    \E p \in Procs :
        /\ Ended(p)
        /\ send[p].to_address = "old@dari"
        /\ send[p].error = "unknown_alias"
        /\ \E r \in resolvers : r.full_address = "old@dari" /\ ~r.is_active
        /\ rows = << >>
        /\ txs = << >>

\* C14: a request whose recipient (an alias, a phone number or a raw address,
\* in any letter case) resolves to the sender's own wallet address is refused
\* as a self-transfer (400); it opens no row and submits nothing.
C14_SelfTransferRefused ==
    \A p \in Procs :
        LET u == send[p].user
            a == send[p].to_address
        IN
        ( /\ u \in Users
          /\ \/ a \in RawIdents /\ Lower(a) = Lower(WalletAddress[u])
             \/ a \in PhoneIdents /\ Phone[u] = a
             \/ /\ a \in DariIdents
                /\ \E r \in resolvers :
                      /\ r.full_address = Lower(a) /\ r.is_active
                      /\ Lower(r.wallet_address) = Lower(WalletAddress[u]) )
        => /\ Ended(p)
           /\ send[p].error = "self_transfer"
           /\ send[p].response = "400"
           /\ send[p].row = NoRow
           /\ send[p].advance = NoHash
           /\ send[p].transfer = NoHash

\* the second user named their own wallet address in lower case and was
\* refused
C14_Witness ==
    \E p \in Procs :
        /\ Ended(p)
        /\ send[p].user = "u2"
        /\ send[p].to_address = "0xbb"
        /\ send[p].error = "self_transfer"
        /\ rows = << >>
        /\ txs = << >>

\* C15: resolving the same alias twice yields the same wallet address, also
\* when aliases are created, renamed or deleted between the two resolutions:
\* all successful resolutions of one alias return one address.
C15_AliasResolvesToOneAddress ==
    \A a \in Aliases : Cardinality(lookups[a]) <= 1

\* C16: for every amount whose USD value (amount times token price) is below
\* the free threshold, calculate_platform_fee returns 0, for domestic and for
\* international transfers alike.
C16_NoPlatformFeeBelowThreshold ==
    \A i \in DOMAIN fee.quotes :
        Less(Times(fee.quotes[i].amount, fee.args.token_price_usd),
             <<FreeThreshold * 100, 0>>)
            => fee.quotes[i].platform_fee = 0

\* an international transfer of 1.5 tokens priced at 0.50 was quoted no
\* platform fee
C16_Witness ==
    /\ fee.args.is_international
    /\ fee.args.token_price_usd = 50
    /\ fee.quotes # << >>
    /\ fee.quotes[1].amount = Amount(1, 500000)
    /\ fee.quotes[1].platform_fee = 0

\* C17: for a fixed token, price, country pair and sponsorship mode, the total
\* fee of calculate_total_fee does not decrease when the amount grows, over
\* the amounts whose USD value is at or above the free threshold.
C17_TotalFeeMonotone ==
    Len(fee.quotes) = 2 =>
        LET hi == fee.quotes[1]
            lo == fee.quotes[2]
            threshold == <<FreeThreshold * 100, 0>>
        IN  ( /\ ~Less(Times(lo.amount, fee.args.token_price_usd), threshold)
              /\ ~Less(Times(hi.amount, fee.args.token_price_usd), threshold)
              /\ ~Less(hi.amount, lo.amount) )
            => /\ lo.total_fee.d = hi.total_fee.d
               /\ \/ lo.total_fee.q < hi.total_fee.q
                  \/ lo.total_fee.q = hi.total_fee.q /\ lo.total_fee.r <= hi.total_fee.r

\* 1000 tokens and then 6000 tokens priced at 1.00 were quoted: the fee of the
\* first lies inside the band, the fee of the second is capped
C17_Witness ==
    /\ fee.args.token_price_usd = 100
    /\ ~fee.args.is_international
    /\ Len(fee.quotes) = 2
    /\ fee.quotes[2].amount = Amount(1000, 0)
    /\ fee.quotes[1].amount = Amount(6000, 0)
    /\ fee.quotes[2].platform_fee = 10000000
    /\ fee.quotes[1].platform_fee = 50000000

\* C18: with sponsorship enabled calculate_total_fee returns a gas fee of 0, a
\* total fee equal to the platform fee and the actual gas cost as the subsidy;
\* with sponsorship disabled the subsidy is 0 and the total fee is the
\* platform fee plus the gas fee.
C18_SponsorshipZeroesGasFee ==
    \A i \in DOMAIN fee.quotes :
        LET b == fee.quotes[i]
            gas == IF fee.args.token = "USDC" THEN 65000 ELSE 21000
            gas_cost_usd == (gas * 30) \div 2
        IN  /\ b.gasless_mode = fee.args.gasless
            /\ b.gas_fee_usd = gas_cost_usd
            /\ b.actual_gas_fee.q * b.actual_gas_fee.d + b.actual_gas_fee.r > 0
            /\ IF fee.args.gasless
               THEN /\ b.gas_fee.q = 0 /\ b.gas_fee.r = 0
                    /\ b.total_fee.q = b.platform_fee /\ b.total_fee.r = 0
                    /\ b.user_gas_fee_usd = 0
                    /\ b.dari_subsidy_usd = gas_cost_usd
               ELSE /\ b.dari_subsidy_usd = 0
                    /\ b.gas_fee = b.actual_gas_fee
                    /\ b.user_gas_fee_usd = gas_cost_usd
                    /\ b.total_fee.q = b.platform_fee + b.gas_fee.q
                    /\ b.total_fee.r = b.gas_fee.r
                    /\ b.total_fee.d = b.gas_fee.d

\* a sponsored USDC transfer of 100 tokens was quoted: the user pays the
\* platform fee only and the gas cost is the subsidy
C18_Witness ==
    /\ fee.args.gasless
    /\ fee.args.token = "USDC"
    /\ fee.quotes # << >>
    /\ fee.quotes[1].amount = Amount(100, 0)
    /\ fee.quotes[1].platform_fee > 0
    /\ fee.quotes[1].total_fee.q = fee.quotes[1].platform_fee
    /\ fee.quotes[1].dari_subsidy_usd = 975000

\* C19: a send is classified international if and only if both country codes
\* are present and differ; when the sender's or the recipient's country is
\* unknown the transfer is classified domestic and the send proceeds.
C19_UnknownCountryIsDomestic ==
    \A p \in Procs :
        LET s == send[p] IN
        (s.user \in Users /\ s.error \notin {"unknown_alias", "unknown_phone", "self_transfer"})
        => /\ s.error # "attribute_error"
           /\ s.pc # "done"
           /\ s.row \in 1..Len(rows)
           /\ s.is_international <=>
                 ( /\ s.sender_country # NoCountry
                   /\ s.recipient_country # NoCountry
                   /\ s.sender_country # s.recipient_country )

\* C20: every token-unit amount the fee engine returns is rounded to 6
\* decimals, a tie going away from zero: the platform fee is the unrounded
\* fee rounded half up in magnitude, and gas fee, actual gas fee and total
\* fee are whole numbers of millionths.
C20_RoundedHalfAwayFromZero ==
    \A i \in DOMAIN fee.quotes :
        LET b == fee.quotes[i]
            v == FeeTokens(b.amount, fee.args.is_international,
                           fee.args.token_price_usd)
        IN  /\ b.platform_fee = (IF 2 * v.r >= v.d THEN v.q + 1 ELSE v.q)
            /\ b.gas_fee.r = 0
            /\ b.actual_gas_fee.r = 0
            /\ b.total_fee.r = 0

\* C21: for every amount whose USD value is at or above the free threshold the
\* platform fee is clamp(amount_usd * rate, min, max) converted to token units
\* at the token price, with the domestic rate 1% and the international rate
\* 2%, and the USD value reported for it (platform_fee_usd) lies inside the
\* band [min, max].
C21_PlatformFeeInsideBand ==
    \A i \in DOMAIN fee.quotes :
        LET b == fee.quotes[i]
            price == fee.args.token_price_usd
            amount_usd == Times(b.amount, price)
            raw == Times(amount_usd, IF fee.args.is_international THEN 2 ELSE 1)
            lowest == <<10 * Base, 0>>
            highest == <<5000 * Base, 0>>
            clamped == IF Less(raw, lowest) THEN lowest
                       ELSE IF Less(highest, raw) THEN highest ELSE raw
            v == DivMod(clamped, 100 * price)
        IN  ~Less(amount_usd, <<100 * 100, 0>>)
            => /\ b.platform_fee \in {v.q, v.q + 1}
               /\ v.r = 0 => b.platform_fee = v.q
               /\ ~Less(b.platform_fee_usd, <<10 * 100, 0>>)
               /\ ~Less(<<5000 * 100, 0>>, b.platform_fee_usd)

\* C22: a finalize call (update_transaction_status) on a row that is already
\* CONFIRMED or FAILED does not raise and changes nothing: status, chain
\* identifier and confirmation time of the row stay as they were.
C22_FinalizeTerminalIsNoOp ==
    [][finalizes' = finalizes + 1 =>
          LET id == lastFinalize'.row IN
          (id \in 1..Len(rows) /\ rows[id].status \in Terminal)
          => /\ ~lastFinalize'.raised
             /\ rows'[id].status = rows[id].status
             /\ rows'[id].tx_hash = rows[id].tx_hash
             /\ rows'[id].confirmed_at = rows[id].confirmed_at]_vars

\* C23: after a successful send has attached the chain identifier h to its
\* row, the row carries h and get_transaction_by_hash(h) returns that row; the
\* lookup of an identifier no row carries returns no row and does not fail.
C23_LookupByHashFindsRow ==
    /\ \A p \in Procs :
          (Ended(p) /\ send[p].response = "200" /\ send[p].transfer # NoHash)
          => rows[send[p].row].tx_hash = send[p].transfer
    /\ lastLookup.hash # NoHash
          => /\ ~lastLookup.raised
             /\ \A i \in 1..Len(rows) :
                   rows[i].tx_hash = lastLookup.hash => lastLookup.row = i
             /\ (\A i \in 1..Len(rows) : rows[i].tx_hash # lastLookup.hash)
                   => lastLookup.row = NoRow

C25_CheckQueriesNeverFailSend ==
    [][\A p \in Procs :
          (send[p].pc = "check" /\ send'[p] # send[p])
          => /\ send'[p].pc \in {"d_submit", "r_check"}
             /\ send'[p].result = "none"]_vars

\* C26: on the direct and on the sponsored path the value transfer is built
\* with the next pending nonce of the sender: when a request submits its
\* transfer while no other request is running (the sends are sequential), the
\* transfer carries a nonce that no transaction of the sender carries yet,
\* mined or still queued, and the node takes it.
C26_SequentialSendsDistinctNonces ==
    [][\A p \in Procs :
          ( /\ send[p].pc \in {"d_submit", "s_submit"}
            /\ \A q \in Procs \ {p} : send[q].pc \in {"idle", "done"}
            /\ send'[p].pc \in {"write_ok", "write_fail"}
            /\ send'[p].error # "rpc" )
          => /\ send'[p].transfer # NoHash
             /\ txs'[send'[p].transfer].nonce = PendingNonce(send[p].user)
             /\ \A h \in 1..Len(txs) :
                   txs[h].from = send[p].user
                   => txs[h].nonce # txs'[send'[p].transfer].nonce]_vars

\* C27: whatever the interleaving of alias creations and updates of different
\* users, no two rows of the alias table share a handle, compared without
\* regard to letter case, no user has two rows, and every row maps its alias
\* to the wallet address of its owner.
C27_AliasUniqueAndOwned ==
    /\ \A r1, r2 \in resolvers :
          (Lower(r1.username) = Lower(r2.username) \/ r1.user_id = r2.user_id)
          => r1 = r2
    /\ \A r \in resolvers :
          /\ r.wallet_address = WalletAddress[r.user_id]
          /\ r.full_address = Lower(r.username) \o "@dari"

\* two requests raced for one handle: one stored it, the other passed its
\* queries and was stopped by the unique constraint at its commit
C27_Witness ==
    \E p, q \in Procs :
       /\ aliasReq[p].pc = "done" /\ aliasReq[p].response = "500"
       /\ aliasReq[q].pc = "done" /\ aliasReq[q].response = "200"
       /\ aliasReq[p].username = aliasReq[q].username
       /\ aliasReq[p].user # aliasReq[q].user
       /\ \E r \in resolvers : r.username = aliasReq[q].username
                               /\ r.user_id = aliasReq[q].user

\* C28: a request that has passed the relayer-balance check of the sponsored
\* path read a relayer balance that covers what its advance costs the
\* relayer: the value of the advance plus the gas of the advance itself
\* (21000 times the gas price).
C28_CheckCoversAdvanceCost ==
    \A p \in Procs :
       send[p].pc \in {"r_nonce", "r_submit"}
       => send[p].relayer_balance >=
             GasToSend(send[p].gas_price) + GasForMaticTransfer * send[p].gas_price

\* the value of the advances among the first h transactions that wait for
\* inclusion
RECURSIVE QueuedAdvanceValue(_)
QueuedAdvanceValue(h) ==
    IF h = 0 THEN 0
    ELSE QueuedAdvanceValue(h - 1)
         + (IF txs[h].kind = "advance" /\ ~txs[h].mined THEN txs[h].value ELSE 0)

\* C29: under concurrent sponsored sends the advances that were submitted
\* after a passed relayer-balance check and wait for inclusion never add up
\* to more than the balance of the relayer: two sends do not both pass the
\* check against one balance that covers a single advance.
C29_AdvancesWithinRelayerBalance ==
    QueuedAdvanceValue(Len(txs)) <= balance[Relayer]

\* C30: for the row of a failed send notify_transaction_failed is called at
\* most once, also when the chain call reports the failure through a result
\* without success instead of an exception; a request that has ended with a
\* failed chain call has issued exactly one failure notification unless its
\* status write raised.
C30_OneFailureNotification ==
    \A p \in Procs :
       LET failed == {i \in 1..Len(notifs[p]) : notifs[p][i] = "failed"} IN
       /\ Cardinality(failed) <= 1
       /\ (Ended(p) /\ send[p].result = "error" /\ faults = 0)
             => Cardinality(failed) = 1

====
